---- MODULE Spec2Model ----
(***************************************************************************)
(* Model of src/app.py, the Oklahoma County well proximity portal: one run *)
(* of main() after "Find Wells" is pressed, from the boundary upload to    *)
(* the displayed well report.                                              *)
(*                                                                         *)
(* Geometry is exact integer geometry.  Geographic coordinates (EPSG:4326) *)
(* are grid steps <<lon, lat>>; projected coordinates (EPSG:2267) are      *)
(* thousandths of a foot.  Reported distances (round(distance, 2)) are     *)
(* whole hundredths of a foot.                                             *)
(***************************************************************************)
EXTENDS Integers, Sequences, FiniteSets, TLC

\* ------------------------------------------------------------------
\* CONFIGURATION & CONSTANTS
\* ------------------------------------------------------------------
CRS_MAP == "EPSG:4326"
CRS_CALC == "EPSG:2267"

\* Largest number of well records in a fetched dataset.
MaxWells == 3

\* Projected units (thousandths of a foot) per foot.
UnitsPerFoot == 1000
\* round(distance, 2): number of decimal digits kept.
RoundDigits == 2
\* Threshold in feet of the "Nearby (< 1000')" label.
NearbyFt == 1000

\* EPSG:2267 around the site, linearised: a longitude step and a latitude
\* step have different lengths on the ground, and the grid has false origins.
ScaleX == 6
ScaleY == 7
FalseEasting == 50
FalseNorthing == 20

\* Value of a float cell that holds NaN (distances are never negative).
NaN == -1

\* ------------------------------------------------------------------
\* Cells of a raw column: a number, a null, or a non-numeric text.
\* ------------------------------------------------------------------
Num(v) == [k |-> "num", v |-> v]
Null == [k |-> "null", v |-> 0]
Text == [k |-> "text", v |-> 0]

\* A point geometry; nan marks POINT (NaN NaN).
Pt(x, y) == [nan |-> FALSE, x |-> x, y |-> y]
NaNPoint == [nan |-> TRUE, x |-> 0, y |-> 0]

\* ------------------------------------------------------------------
\* Reprojection (GeoDataFrame.to_crs)
\* ------------------------------------------------------------------
\* EPSG:4326 -> EPSG:2267 of one coordinate pair.
ToCalc(p) == <<FalseEasting + ScaleX * p[1], FalseNorthing + ScaleY * p[2]>>

\* EPSG:2267 -> EPSG:4326 of one coordinate pair.
ToMap(p) == <<(p[1] - FalseEasting) \div ScaleX, (p[2] - FalseNorthing) \div ScaleY>>

RingToCalc(ring) == [i \in 1..Len(ring) |-> ToCalc(ring[i])]
RingToMap(ring) == [i \in 1..Len(ring) |-> ToMap(ring[i])]

\* to_crs of a geometry column of polygons, from crs `from` to crs `to`.
PolysToCrs(features, from, to) ==
    IF from = to THEN features
    ELSE IF to = CRS_CALC
         THEN [i \in 1..Len(features) |-> RingToCalc(features[i])]
         ELSE [i \in 1..Len(features) |-> RingToMap(features[i])]

\* to_crs(CRS_CALC) of a point geometry; NaN coordinates stay NaN.
PointToCalc(g) ==
    IF g.nan THEN g
    ELSE Pt(ToCalc(<<g.x, g.y>>)[1], ToCalc(<<g.x, g.y>>)[2])

\* ------------------------------------------------------------------
\* Planar predicates (shapely / GEOS), exact
\* ------------------------------------------------------------------
Min2(a, b) == IF a < b THEN a ELSE b
Max2(a, b) == IF a < b THEN b ELSE a

\* Edge i of a ring: from vertex i to the next vertex, closing the ring.
EdgeFrom(ring, i) == ring[i]
EdgeTo(ring, i) == ring[(i % Len(ring)) + 1]

Cross(a, b, p) == (b[1] - a[1]) * (p[2] - a[2]) - (b[2] - a[2]) * (p[1] - a[1])

OnSegment(a, b, p) ==
    /\ Cross(a, b, p) = 0
    /\ Min2(a[1], b[1]) <= p[1] /\ p[1] <= Max2(a[1], b[1])
    /\ Min2(a[2], b[2]) <= p[2] /\ p[2] <= Max2(a[2], b[2])

\* The point lies on the boundary of the ring.
OnRing(ring, p) ==
    \E i \in 1..Len(ring) : OnSegment(EdgeFrom(ring, i), EdgeTo(ring, i), p)

\* Edge a-b is crossed by the ray from p towards +x.
RayCrosses(a, b, p) ==
    /\ (a[2] > p[2]) # (b[2] > p[2])
    /\ IF b[2] > a[2]
       THEN (p[1] - a[1]) * (b[2] - a[2]) < (p[2] - a[2]) * (b[1] - a[1])
       ELSE (p[1] - a[1]) * (b[2] - a[2]) > (p[2] - a[2]) * (b[1] - a[1])

Crossings(ring, p) ==
    Cardinality({i \in 1..Len(ring) :
                    RayCrosses(EdgeFrom(ring, i), EdgeTo(ring, i), p)})

\* Polygon.contains(Point): the point is in the interior; a point on the
\* boundary is not contained.
RingContains(ring, p) ==
    /\ ~OnRing(ring, p)
    /\ Crossings(ring, p) % 2 = 1

\* unary_union of the features (pairwise disjoint polygons) .contains(point).
Contains(polys, g) ==
    /\ ~g.nan
    /\ \E i \in 1..Len(polys) : RingContains(polys[i], <<g.x, g.y>>)

\* Squared distances are exact fractions <<numerator, denominator>>.
Dot(a, b, p) == (b[1] - a[1]) * (p[1] - a[1]) + (b[2] - a[2]) * (p[2] - a[2])
Len2(a, b) == (b[1] - a[1]) * (b[1] - a[1]) + (b[2] - a[2]) * (b[2] - a[2])

SegDist2(a, b, p) ==
    IF Dot(a, b, p) <= 0 THEN <<Len2(a, p), 1>>
    ELSE IF Dot(a, b, p) >= Len2(a, b) THEN <<Len2(b, p), 1>>
    ELSE <<Cross(a, b, p) * Cross(a, b, p), Len2(a, b)>>

FracLeq(q, r) == q[1] * r[2] <= r[1] * q[2]

\* All edges of all features, as pairs <<feature, edge>>.
EdgeIds(polys) == {e \in (1..Len(polys)) \X (1..6) : e[2] <= Len(polys[e[1]])}

EdgeDist2(polys, e, p) ==
    SegDist2(EdgeFrom(polys[e[1]], e[2]), EdgeTo(polys[e[1]], e[2]), p)

\* Squared distance from the point to the nearest edge.
BoundaryDist2(polys, p) ==
    LET best == CHOOSE e \in EdgeIds(polys) :
                    \A o \in EdgeIds(polys) :
                        FracLeq(EdgeDist2(polys, e, p), EdgeDist2(polys, o, p))
    IN  EdgeDist2(polys, best, p)

\* unary_union.distance(point), squared: 0 for a point of the polygon.
Distance2(polys, g) ==
    IF Contains(polys, g) THEN <<0, 1>> ELSE BoundaryDist2(polys, <<g.x, g.y>>)

\* Units of the last kept digit, and half of it, in projected units.
Pow10(n) == IF n = 0 THEN 1 ELSE IF n = 1 THEN 10 ELSE IF n = 2 THEN 100 ELSE 1000
Quantum == UnitsPerFoot \div Pow10(RoundDigits)
HalfQuantum == Quantum \div 2

\* round(distance, 2) of the distance whose square is q, in hundredths of a
\* foot; a tie goes to the even neighbour.
RoundFt(q) ==
    CHOOSE k \in 0..20 :
        /\ \/ k = 0
           \/ (Quantum * k - HalfQuantum) * (Quantum * k - HalfQuantum) * q[2] < q[1]
           \/ /\ (Quantum * k - HalfQuantum) * (Quantum * k - HalfQuantum) * q[2] = q[1]
              /\ k % 2 = 0
        /\ \/ q[1] < (Quantum * k + HalfQuantum) * (Quantum * k + HalfQuantum) * q[2]
           \/ /\ q[1] = (Quantum * k + HalfQuantum) * (Quantum * k + HalfQuantum) * q[2]
              /\ k % 2 = 0

\* ------------------------------------------------------------------
\* Inputs: boundary files and well datasets
\* ------------------------------------------------------------------
Square == << <<1, 1>>, <<3, 1>>, <<3, 3>>, <<1, 3>> >>
Triangle == << <<0, 0>>, <<4, 0>>, <<0, 4>> >>
LShape == << <<0, 0>>, <<4, 0>>, <<4, 2>>, <<2, 2>>, <<2, 4>>, <<0, 4>> >>
ParcelA == << <<0, 0>>, <<2, 0>>, <<2, 2>>, <<0, 2>> >>
ParcelB == << <<3, 4>>, <<4, 2>>, <<4, 4>> >>

\* What st.file_uploader returns, as gpd.read_file sees it.
NoFile == [kind |-> "none", crs |-> "", features |-> << >>]
BadFile == [kind |-> "unparsable", crs |-> "", features |-> << >>]
GeoFile(crs, features) == [kind |-> "ok", crs |-> crs, features |-> features]

UploadedFiles ==
    {NoFile, BadFile}
    \cup {GeoFile(CRS_MAP, <<r>>) : r \in {Square, Triangle, LShape}}
    \cup {GeoFile(CRS_MAP, <<ParcelA, ParcelB>>)}
    \cup {GeoFile(CRS_CALC, <<RingToCalc(Square)>>)}
    \cup {GeoFile("", <<Square>>)}

\* Well locations <<lon, lat>>: interior, edge, vertex and outside points of
\* the boundaries above.
WellPoints == {<<2, 2>>, <<1, 1>>, <<2, 1>>, <<3, 3>>, <<4, 4>>, <<2, 3>>, <<0, 0>>}

WellRow(s, lon, lat) == [status |-> s, lon |-> lon, lat |-> lat]

RowPool ==
    {WellRow("ACTIVE", Num(p[1]), Num(p[2])) : p \in WellPoints}
    \cup {WellRow("PLUGGED", Num(2), Num(2)),
          WellRow("producing", Num(1), Num(1)),
          WellRow("ACTIVE", Num(1), Null),
          WellRow("ACTIVE", Num(1), Text)}

\* A dataset: the names of its latitude, longitude and status columns ("" when
\* it has none) and its records.  WellName, Operator and API are always there.
Dataset(latCol, lonCol, statusCol, rows) ==
    [latCol |-> latCol, lonCol |-> lonCol, statusCol |-> statusCol, rows |-> rows]

EmptyList == Dataset("", "", "", << >>)

RowSeqs == UNION {[1..n -> RowPool] : n \in 1..MaxWells}

HeaderRows == << WellRow("ACTIVE", Num(1), Num(1)), WellRow("ACTIVE", Num(3), Num(3)) >>

Datasets ==
    {Dataset("Latitude", "Longitude", "WellStatus", rows) : rows \in RowSeqs}
    \cup {Dataset(la, lo, st, HeaderRows) :
            la \in {"Latitude", "SurfaceLatitude", ""},
            lo \in {"Longitude", "SurfaceLongitude", ""},
            st \in {"WellStatus", "Status", ""}}
    \cup {EmptyList}

Columns(df) == ({"WellName", "Operator", "API", df.latCol, df.lonCol, df.statusCol}) \ {""}

\* ------------------------------------------------------------------
\* HELPER FUNCTIONS
\* ------------------------------------------------------------------
None == ""
MOCK_TOKEN == "MOCK_TOKEN"

\* Outcomes of the token request: it raises, it answers without a token, it
\* answers with one.
AuthResponses == {"error", "no_token", "token"}

get_enverus_token(has_secrets, response) ==
    IF ~has_secrets THEN [token |-> None, error |-> "Enverus credentials not found in secrets.toml"]
    ELSE IF response = "error" THEN [token |-> None, error |-> "Authentication Failed"]
    ELSE IF response = "no_token" THEN [token |-> None, error |-> ""]
    ELSE [token |-> "TOKEN", error |-> ""]

\* The three dummy wells, placed on the grid in their relative positions.
get_mock_data ==
    Dataset("Latitude", "Longitude", "WellStatus",
            << WellRow("ACTIVE", Num(1), Num(2)),
               WellRow("PRODUCING", Num(4), Num(4)),
               WellRow("PLUGGED", Num(0), Num(0)) >>)

\* Outcomes of the wells request: it raises, or it answers with a dataset.
WellsResponses == {[ok |-> FALSE, data |-> EmptyList]} \cup {[ok |-> TRUE, data |-> d] : d \in Datasets}

\* fetch_enverus_wells sending the request before it looks at the mock token.
fetch_enverus_wells_request_first(tok, response) ==
    IF tok = MOCK_TOKEN THEN [data |-> get_mock_data, sent |-> 1, error |-> ""]
    ELSE IF response.ok THEN [data |-> response.data, sent |-> 1, error |-> ""]
    ELSE [data |-> EmptyList, sent |-> 1, error |-> "Data Fetch Error"]

fetch_enverus_wells(tok, response) ==
    IF tok = MOCK_TOKEN THEN [data |-> get_mock_data, sent |-> 0, error |-> ""]
    ELSE IF response.ok THEN [data |-> response.data, sent |-> 1, error |-> ""]
    ELSE [data |-> EmptyList, sent |-> 1, error |-> "Data Fetch Error"]

\* A data frame of results: its columns, its index labels and its rows.
Frame(columns, index, rows) == [columns |-> columns, index |-> index, rows |-> rows]
NoFrame == Frame({}, << >>, << >>)

Index(gdf) == [i \in 1..Len(gdf) |-> gdf[i].idx]

\* calculate_distances testing the wells' geographic points against the
\* projected polygon (the wells are not reprojected).
calculate_distances_unprojected(wells, property) ==
    LET wells_ft == [i \in 1..Len(wells) |-> wells[i].geometry]
        property_poly == PolysToCrs(property.features, property.crs, CRS_CALC)
        is_inside(i) == Contains(property_poly, wells_ft[i])
        dist_ft(i) == IF is_inside(i) THEN 0
                      ELSE IF wells_ft[i].nan THEN NaN
                      ELSE RoundFt(Distance2(property_poly, wells_ft[i]))
        results == [i \in 1..Len(wells) |->
                       [is_inside |-> is_inside(i), dist_ft |-> dist_ft(i)]]
    IN  Frame(IF results = << >> THEN {} ELSE {"is_inside", "dist_ft"},
              Index(wells), results)

\* calculate_distances returning pd.DataFrame(results) without index=, so the
\* rows are labelled 0..n-1.
calculate_distances_positional(wells, property) ==
    LET wells_ft == [i \in 1..Len(wells) |-> PointToCalc(wells[i].geometry)]
        property_poly == PolysToCrs(property.features, property.crs, CRS_CALC)
        is_inside(i) == Contains(property_poly, wells_ft[i])
        dist_ft(i) == IF is_inside(i) THEN 0
                      ELSE IF wells_ft[i].nan THEN NaN
                      ELSE RoundFt(Distance2(property_poly, wells_ft[i]))
        results == [i \in 1..Len(wells) |->
                       [is_inside |-> is_inside(i), dist_ft |-> dist_ft(i)]]
    IN  Frame(IF results = << >> THEN {} ELSE {"is_inside", "dist_ft"},
              [i \in 1..Len(wells) |-> i - 1], results)

calculate_distances(wells, property) ==
    LET wells_ft == [i \in 1..Len(wells) |-> PointToCalc(wells[i].geometry)]
        property_poly == PolysToCrs(property.features, property.crs, CRS_CALC)
        is_inside(i) == Contains(property_poly, wells_ft[i])
        dist_ft(i) == IF is_inside(i) THEN 0
                      ELSE IF wells_ft[i].nan THEN NaN
                      ELSE RoundFt(Distance2(property_poly, wells_ft[i]))
        results == [i \in 1..Len(wells) |->
                       [is_inside |-> is_inside(i), dist_ft |-> dist_ft(i)]]
    IN  Frame(IF results = << >> THEN {} ELSE {"is_inside", "dist_ft"},
              Index(wells), results)

\* series.astype(str).str.upper() on the status values in use.
Upper(s) == IF s = "producing" THEN "PRODUCING" ELSE s

active_statuses == {"ACTIVE", "PRODUCING", "PERMITTED", "DRILLING"}

\* gpd.points_from_xy on one record: a null coordinate gives a NaN point.
PointFromXY(lon, lat) ==
    IF lon.k = "null" \/ lat.k = "null" THEN NaNPoint ELSE Pt(lon.v, lat.v)

\* NaN < x is False.
LessThan(d, x) == d # NaN /\ d < x

\* The lambda of final_df.apply: a missing (NaN) 'On Property' is truthy.
ProximityStatus(x) ==
    IF x.na \/ x.on_property THEN "On Property"
    ELSE IF LessThan(x.distance, NearbyFt * Pow10(RoundDigits)) THEN "Nearby (< 1000')"
    ELSE "Far"

\* Position of a label in a frame's index, 0 when absent.
Locate(frame, label) ==
    IF \E i \in 1..Len(frame.index) : frame.index[i] = label
    THEN CHOOSE i \in 1..Len(frame.index) : frame.index[i] = label
    ELSE 0

\* ------------------------------------------------------------------
\* MAIN APP: state of one run of main()
\* ------------------------------------------------------------------
VARIABLES
    pc,               \* position of the run in main()
    uploaded_file,    \* the upload
    gdf_property,     \* [loaded, crs, features]; loaded = FALSE is None
    token,
    auth_failed,      \* get_enverus_token returned no token
    raw_data,
    fetch_failed,     \* the wells request raised
    wells_requests,   \* requests sent to WELLS_URL
    lat_col, lon_col, status_col,
    gdf_wells,        \* rows [idx, status, raw, geometry]
    spatial_results,
    final_df,
    report,           \* rows handed to st.dataframe
    report_shown,
    messages,         \* st.error / st.warning / st.success texts
    exception         \* the exception that ended the run, "" when none

vars == <<pc, uploaded_file, gdf_property, token, auth_failed, raw_data,
          fetch_failed, wells_requests, lat_col, lon_col, status_col,
          gdf_wells, spatial_results, final_df, report, report_shown,
          messages, exception>>

NoProperty == [loaded |-> FALSE, crs |-> "", features |-> << >>]

Init ==
    /\ pc = "upload"
    /\ uploaded_file = NoFile
    /\ gdf_property = NoProperty
    /\ token = None
    /\ auth_failed = FALSE
    /\ raw_data = EmptyList
    /\ fetch_failed = FALSE
    /\ wells_requests = 0
    /\ lat_col = ""
    /\ lon_col = ""
    /\ status_col = ""
    /\ gdf_wells = << >>
    /\ spatial_results = NoFrame
    /\ final_df = << >>
    /\ report = << >>
    /\ report_shown = FALSE
    /\ messages = {}
    /\ exception = ""

\* The property frame after the upload block: read_file, then to_crs(CRS_MAP)
\* when the file's CRS differs.  A file without CRS makes to_crs raise inside
\* the try, after gdf_property was already assigned.
ReadBoundary(file) ==
    IF file.kind # "ok" THEN NoProperty
    ELSE IF file.crs = CRS_MAP THEN [loaded |-> TRUE, crs |-> CRS_MAP, features |-> file.features]
    ELSE IF file.crs = "" THEN [loaded |-> TRUE, crs |-> "", features |-> file.features]
    ELSE [loaded |-> TRUE, crs |-> CRS_MAP,
          features |-> PolysToCrs(file.features, file.crs, CRS_MAP)]

BoundaryMessage(file) ==
    IF file.kind = "none" THEN {}
    ELSE IF file.kind = "unparsable" \/ file.crs = "" THEN {"Error reading file"}
    ELSE {"Loaded polygon"}

\* Boundary block of main(): the upload, `if gdf_property is not None`, and
\* the bounding box of the query, which reprojects the property.
ResolveBoundaryWith(file) ==
    /\ pc = "upload"
    /\ uploaded_file' = file
    /\ gdf_property' = ReadBoundary(file)
    /\ messages' = messages \cup BoundaryMessage(file)
    /\ exception' = IF gdf_property'.loaded /\ gdf_property'.crs = "" THEN "ValueError" ELSE ""
    /\ pc' = IF ~gdf_property'.loaded \/ exception' # "" THEN "done" ELSE "button"
    /\ UNCHANGED <<token, auth_failed, raw_data, fetch_failed, wells_requests,
                   lat_col, lon_col, status_col, gdf_wells, spatial_results,
                   final_df, report, report_shown>>

ResolveBoundary ==
    /\ pc = "upload"
    /\ \E file \in UploadedFiles : ResolveBoundaryWith(file)

\* "Find Wells" pressed: get_enverus_token and the mock fallback.
AuthenticateWith(has_secrets, response) ==
    /\ pc = "button"
    /\ LET r == get_enverus_token(has_secrets, response)
       IN  /\ auth_failed' = (r.token = None)
           /\ token' = IF r.token = None THEN MOCK_TOKEN ELSE r.token
           /\ messages' = (messages \cup {r.error} \cup
                           (IF r.token = None THEN {"Using Mock Data (Auth Failed)"} ELSE {}))
                          \ {""}
    /\ pc' = "fetch"
    /\ UNCHANGED <<uploaded_file, gdf_property, raw_data, fetch_failed,
                   wells_requests, lat_col, lon_col, status_col, gdf_wells,
                   spatial_results, final_df, report, report_shown, exception>>

Authenticate ==
    /\ pc = "button"
    /\ \E has_secrets \in BOOLEAN, response \in AuthResponses :
           AuthenticateWith(has_secrets, response)

\* fetch_enverus_wells and `if raw_data`.
FetchWith(response) ==
    /\ pc = "fetch"
    /\ LET r == fetch_enverus_wells(token, response)
       IN  /\ raw_data' = r.data
           /\ wells_requests' = wells_requests + r.sent
           /\ fetch_failed' = (r.error # "")
           /\ messages' = (messages \cup {r.error}) \ {""}
    /\ pc' = IF raw_data'.rows # << >> THEN "frame" ELSE "done"
    /\ UNCHANGED <<uploaded_file, gdf_property, token, auth_failed, lat_col,
                   lon_col, status_col, gdf_wells, spatial_results, final_df,
                   report, report_shown, exception>>

Fetch ==
    /\ pc = "fetch"
    /\ \E response \in WellsResponses : FetchWith(response)

LatCol(df) == IF "Latitude" \in Columns(df) THEN "Latitude" ELSE "SurfaceLatitude"
LonCol(df) == IF "Longitude" \in Columns(df) THEN "Longitude" ELSE "SurfaceLongitude"
StatusCol(df) == IF "WellStatus" \in Columns(df) THEN "WellStatus" ELSE "Status"

\* What building the GeoDataFrame raises: KeyError for df_wells[lon_col] on a
\* missing column, ValueError for a value points_from_xy cannot make a float.
FrameException(df) ==
    IF LonCol(df) \notin Columns(df) THEN "KeyError"
    ELSE IF \E i \in 1..Len(df.rows) : df.rows[i].lon.k = "text" \/ df.rows[i].lat.k = "text"
         THEN "ValueError"
    ELSE ""

\* pd.DataFrame(raw_data) with a RangeIndex, and its point geometry.
MakeGeoFrame(df) ==
    [i \in 1..Len(df.rows) |->
        [idx |-> i - 1,
         status |-> df.rows[i].status,
         raw |-> df.rows[i],
         geometry |-> PointFromXY(df.rows[i].lon, df.rows[i].lat)]]

\* Column resolution, the coordinate check and the GeoDataFrame.
BuildFrame ==
    /\ pc = "frame"
    /\ lat_col' = LatCol(raw_data)
    /\ lon_col' = LonCol(raw_data)
    /\ IF lat_col' \notin Columns(raw_data)
       THEN /\ messages' = messages \cup {"API returned data without coordinates."}
            /\ UNCHANGED <<gdf_wells, exception>>
            /\ pc' = "done"
       ELSE IF FrameException(raw_data) # ""
       THEN /\ exception' = FrameException(raw_data)
            /\ UNCHANGED <<gdf_wells, messages>>
            /\ pc' = "done"
       ELSE /\ gdf_wells' = MakeGeoFrame(raw_data)
            /\ UNCHANGED <<messages, exception>>
            /\ pc' = "filter"
    /\ UNCHANGED <<uploaded_file, gdf_property, token, auth_failed, raw_data,
                   fetch_failed, wells_requests, status_col, spatial_results,
                   final_df, report, report_shown>>

IsActive(row) == Upper(row.status) \in active_statuses

\* The status filter; gdf_wells[status_col] raises KeyError on a missing column.
FilterStatus ==
    /\ pc = "filter"
    /\ status_col' = StatusCol(raw_data)
    /\ IF status_col' \notin Columns(raw_data)
       THEN /\ exception' = "KeyError"
            /\ UNCHANGED gdf_wells
            /\ pc' = "done"
       ELSE /\ gdf_wells' = SelectSeq(gdf_wells, IsActive)
            /\ UNCHANGED exception
            /\ pc' = "spatial"
    /\ UNCHANGED <<uploaded_file, gdf_property, token, auth_failed, raw_data,
                   fetch_failed, wells_requests, lat_col, lon_col,
                   spatial_results, final_df, report, report_shown, messages>>

\* 5. Spatial Logic
SpatialLogic ==
    /\ pc = "spatial"
    /\ spatial_results' = calculate_distances(gdf_wells, gdf_property)
    /\ pc' = "combine"
    /\ UNCHANGED <<uploaded_file, gdf_property, token, auth_failed, raw_data,
                   fetch_failed, wells_requests, lat_col, lon_col, status_col,
                   gdf_wells, final_df, report, report_shown, messages, exception>>

\* final_df[col] = spatial_results[col]: values are aligned on the index
\* label; a label the results lack gets NaN.
Combined(wells, results) ==
    [i \in 1..Len(wells) |->
        LET j == Locate(results, wells[i].idx)
            row == [idx |-> wells[i].idx,
                    status |-> wells[i].status,
                    geometry |-> wells[i].geometry,
                    na |-> (j = 0),
                    on_property |-> IF j = 0 THEN FALSE ELSE results.rows[j].is_inside,
                    distance |-> IF j = 0 THEN NaN ELSE results.rows[j].dist_ft]
        IN  row @@ [label |-> ProximityStatus(row)]]

\* Combine Data; spatial_results['is_inside'] raises KeyError when the
\* results frame has no such column.
Combine ==
    /\ pc = "combine"
    /\ IF "is_inside" \notin spatial_results.columns
       THEN /\ exception' = "KeyError"
            /\ UNCHANGED final_df
            /\ pc' = "done"
       ELSE /\ final_df' = Combined(gdf_wells, spatial_results)
            /\ UNCHANGED exception
            /\ pc' = "display"
    /\ UNCHANGED <<uploaded_file, gdf_property, token, auth_failed, raw_data,
                   fetch_failed, wells_requests, lat_col, lon_col, status_col,
                   gdf_wells, spatial_results, report, report_shown, messages>>

\* Display Table: final_df[display_cols], in the frame's row order.
Display ==
    /\ pc = "display"
    /\ report' = final_df
    /\ report_shown' = TRUE
    /\ pc' = "done"
    /\ UNCHANGED <<uploaded_file, gdf_property, token, auth_failed, raw_data,
                   fetch_failed, wells_requests, lat_col, lon_col, status_col,
                   gdf_wells, spatial_results, final_df, messages, exception>>

Next ==
    \/ ResolveBoundary
    \/ Authenticate
    \/ Fetch
    \/ BuildFrame
    \/ FilterStatus
    \/ SpatialLogic
    \/ Combine
    \/ Display

Spec == Init /\ [][Next]_vars

\* ------------------------------------------------------------------
\* Properties
\* ------------------------------------------------------------------
\* The wells request has been answered (or skipped for the mock token).
Fetched == token # None /\ pc # "fetch"
\* calculate_distances has returned.
PostSpatial == pc \in {"combine", "display"} \/ report_shown
\* The result columns have been assigned and labelled.
PostCombine == pc = "display" \/ report_shown

\* Position of the well's point relative to the property, judged on the
\* geographic coordinates the user supplied.
OnBoundaryGeo(g) ==
    /\ ~g.nan
    /\ \E i \in 1..Len(gdf_property.features) :
           OnRing(gdf_property.features[i], <<g.x, g.y>>)

StrictlyInsideGeo(g) ==
    /\ ~g.nan
    /\ \E i \in 1..Len(gdf_property.features) :
           RingContains(gdf_property.features[i], <<g.x, g.y>>)

\* C1: every well whose point lies exactly on an edge or vertex of the
\* property boundary is reported inside, with distance 0, and labelled
\* "On Property".
C1_BoundaryIsClosed ==
    PostCombine =>
        \A i \in 1..Len(final_df) :
            OnBoundaryGeo(final_df[i].geometry) =>
                /\ final_df[i].on_property
                /\ final_df[i].distance = 0
                /\ final_df[i].label = "On Property"

\* C2: every well strictly inside the property boundary polygon gets
\* is_inside = true and dist_ft = 0 from calculate_distances.
C2_Containment ==
    PostSpatial =>
        /\ Len(spatial_results.rows) = Len(gdf_wells)
        /\ \A i \in 1..Len(gdf_wells) :
               StrictlyInsideGeo(gdf_wells[i].geometry) =>
                   /\ spatial_results.rows[i].is_inside
                   /\ spatial_results.rows[i].dist_ft = 0

\* A well strictly inside a boundary that is not the axis-parallel square has
\* been classified.
C2_Witness ==
    /\ pc = "combine"
    /\ Len(gdf_property.features[1]) # 4
    /\ \E i \in 1..Len(gdf_wells) :
           /\ StrictlyInsideGeo(gdf_wells[i].geometry)
           /\ spatial_results.rows[i].is_inside

\* C3: a well is classified on-property if and only if its reported distance
\* is 0; a well outside the boundary by any amount reports a nonzero distance.
C3_OnPropertyIffZeroDistance ==
    PostCombine =>
        \A i \in 1..Len(final_df) :
            /\ (final_df[i].label = "On Property") <=> (final_df[i].distance = 0)
            /\ (~final_df[i].geometry.nan
                /\ ~StrictlyInsideGeo(final_df[i].geometry)
                /\ ~OnBoundaryGeo(final_df[i].geometry)) => final_df[i].distance # 0

\* C4: when no well remains to classify, the run ends without an exception:
\* after a fetch that returned no well, and after a status filter that
\* removed every fetched well, where the empty report is rendered.
C4_EmptyResultRenders ==
    (pc = "done" /\ Fetched /\ ~fetch_failed) =>
        /\ raw_data.rows = << >> => exception = ""
        /\ (status_col \in Columns(raw_data) /\ gdf_wells = << >>) =>
               (exception = "" /\ report_shown /\ report = << >>)

HasLat(df) == "Latitude" \in Columns(df) \/ "SurfaceLatitude" \in Columns(df)
HasLon(df) == "Longitude" \in Columns(df) \/ "SurfaceLongitude" \in Columns(df)
CoordinateError == "API returned data without coordinates."

\* C5: a fetched dataset without a recognizable latitude column or without a
\* recognizable longitude column ends in the missing-coordinates error, with
\* no report and no unhandled exception; a dataset with both never signals it.
C5_MissingCoordinateColumns ==
    (pc = "done" /\ Fetched /\ raw_data.rows # << >>) =>
        IF HasLat(raw_data) /\ HasLon(raw_data)
        THEN CoordinateError \notin messages
        ELSE CoordinateError \in messages /\ exception = "" /\ ~report_shown

Malformed(row) == row.lat.k # "num" \/ row.lon.k # "num"

\* Index labels of the records that are well-formed and have an active status.
ValidActiveLabels(df) ==
    {i - 1 : i \in {j \in 1..Len(df.rows) :
                       ~Malformed(df.rows[j]) /\ IsActive(df.rows[j])}}

\* C6: when some records have null or non-numeric coordinates, each of them
\* is dropped, the run is not aborted, and the report holds exactly the
\* remaining valid records.
C6_PartialFailureTolerance ==
    (/\ pc = "done"
     /\ Fetched
     /\ HasLat(raw_data) /\ HasLon(raw_data)
     /\ "WellStatus" \in Columns(raw_data) \/ "Status" \in Columns(raw_data)
     /\ \E i \in 1..Len(raw_data.rows) : Malformed(raw_data.rows[i])
     /\ ValidActiveLabels(raw_data) # {})
    => /\ exception = ""
       /\ report_shown
       /\ {report[i].idx : i \in 1..Len(report)} = ValidActiveLabels(raw_data)
       /\ \A i \in 1..Len(report) : ~report[i].geometry.nan

\* C7: boundary resolution always yields a polygon: without an upload, or
\* with an unparsable one, the run goes on with a fallback boundary.
C7_BoundaryFallback ==
    (pc # "upload" /\ uploaded_file.kind # "ok") =>
        (gdf_property.loaded /\ pc # "done")

\* C8: the rows of the displayed report are in ascending order of distance,
\* wells of equal distance in their input order.
C8_ReportSortedByDistance ==
    report_shown =>
        \A i, j \in 1..Len(report) :
            (i < j /\ report[i].distance # NaN /\ report[j].distance # NaN) =>
                /\ report[i].distance <= report[j].distance
                /\ (report[i].distance = report[j].distance => report[i].idx < report[j].idx)

OwnResult(g) ==
    LET poly == PolysToCrs(gdf_property.features, gdf_property.crs, CRS_CALC)
        pt == PointToCalc(g)
    IN  [is_inside |-> Contains(poly, pt),
         dist_ft |-> IF Contains(poly, pt) THEN 0
                     ELSE IF pt.nan THEN NaN
                     ELSE RoundFt(BoundaryDist2(poly, <<pt.x, pt.y>>))]

\* C10: calculate_distances returns one row per input well under that well's
\* index label, and each well in the report carries the values computed from
\* its own point.
C10_OwnValues ==
    /\ PostSpatial =>
           /\ spatial_results.index = Index(gdf_wells)
           /\ Len(spatial_results.rows) = Len(gdf_wells)
    /\ PostCombine =>
           \A i \in 1..Len(final_df) :
               /\ ~final_df[i].na
               /\ final_df[i].on_property = OwnResult(final_df[i].geometry).is_inside
               /\ final_df[i].distance = OwnResult(final_df[i].geometry).dist_ft

\* The filter removed the middle well; the two survivors, labelled 0 and 2,
\* are displayed with different results.
C10_Witness ==
    /\ report_shown
    /\ Len(report) = 2
    /\ report[1].idx = 0
    /\ report[2].idx = 2
    /\ report[1].on_property # report[2].on_property
====
